---- MODULE Spec2Model ----
(***************************************************************************)
(* Model of svalbard: the password derivation pipeline of                  *)
(* vault/src/generate.rs (digest request, PasswordTable::new, balance,     *)
(* build), the Characters selector of vault/src/seed.rs and the Vault of   *)
(* vault/src/lib.rs with its file on disk.                                 *)
(*                                                                         *)
(* Two specifications:                                                     *)
(*   Spec       one process calling generate::password(key, pepper, seed)  *)
(*              twice with the same arguments;                             *)
(*   VaultSpec  one process using the Vault API against one vault folder.  *)
(***************************************************************************)
EXTENDS Integers, Sequences, FiniteSets, TLC

(***************************************************************************)
(* Bounds of the model.                                                    *)
(***************************************************************************)
\* Largest "ordinary" seed.length drawn (digest of 2 * MaxLen bytes).
MaxLen == 5
\* Largest number of seeds a modelled vault holds.
MaxSeeds == 2
\* Number of Vault API calls in one behaviour of VaultSpec.
MaxOps == 4

(***************************************************************************)
(* Machine integers.  TLC's integers are 32 bits wide and signed, so a u32 *)
(* or usize value v is kept as the pair <<v \div 2^16, v % 2^16>>.         *)
(***************************************************************************)
Half == 256 * 256

Wide(n) == <<n \div Half, n % Half>>

\* usize multiplication by two (64-bit usize: no overflow for a u32 operand).
Mul2(x) == LET lo2 == 2 * x[2] IN <<2 * x[1] + (lo2 \div Half), lo2 % Half>>

\* 4.max(x) on usize.
Max4(x) == IF x[1] = 0 /\ x[2] < 4 THEN <<0, 4>> ELSE x

\* `as u32` of a usize: keeps the low 32 bits.
AsU32(x) == <<x[1] % Half, x[2]>>

\* the u8 parameter of PasswordTable::new: keeps the low 8 bits.
AsU8(x) == x[2] % 256

\* `as usize` of a u32 (widening).
AsUsize(x) == x

Min(a, b) == IF a < b THEN a ELSE b

(***************************************************************************)
(* seed.rs: Characters.                                                    *)
(***************************************************************************)
SETS ==
  << <<65, 66, 67, 68, 69, 70, 71, 72, 74, 75, 76, 77, 78, 80, 81, 82, 83, 84,
       85, 86, 87, 88, 89, 90>>,
     <<97, 98, 99, 100, 101, 102, 103, 104, 105, 106, 107, 109, 110, 111, 112,
       113, 114, 115, 116, 117, 118, 119, 120, 121, 122>>,
     <<49, 50, 51, 52, 53, 54, 55, 56, 57>>,
     <<33, 35, 38, 40, 41, 42, 43, 44, 45, 46, 60, 61, 62, 63, 64, 91, 93, 95>>,
     <<34, 36, 37, 47, 58, 59, 92, 94, 123, 124, 125, 126, 32>> >>

Pow2(n) == IF n = 0 THEN 1 ELSE IF n = 1 THEN 2 ELSE IF n = 2 THEN 4
           ELSE IF n = 3 THEN 8 ELSE IF n = 4 THEN 16 ELSE IF n = 5 THEN 32
           ELSE IF n = 6 THEN 64 ELSE 128

\* self.bits & (1 << i) != 0
BitSet(bits, i) == (bits \div Pow2(i)) % 2 = 1

\* get reading the flags from the highest bit down.
RECURSIVE GetFrom_HighBitFirst(_, _)
GetFrom_HighBitFirst(bits, i) ==
  IF i >= Len(SETS) THEN <<>>
  ELSE (IF BitSet(bits, Len(SETS) - 1 - i) THEN <<SETS[i + 1]>> ELSE <<>>)
         \o GetFrom_HighBitFirst(bits, i + 1)

RECURSIVE GetFrom(_, _)
GetFrom(bits, i) ==
  IF i >= Len(SETS) THEN <<>>
  ELSE (IF BitSet(bits, i) THEN <<SETS[i + 1]>> ELSE <<>>) \o GetFrom(bits, i + 1)

\* Characters::get: the selected sets, in the order of SETS.
Get(bits) == GetFrom(bits, 0)

\* The masks the bitflags constructors produce.
Masks == 0..31

FLAG_CHARS == <<"U", "L", "N", "S", "R">>

\* <Characters as ToString>::to_string
CharactersToString(bits) ==
  [i \in 1..Len(FLAG_CHARS) |-> IF BitSet(bits, i - 1) THEN FLAG_CHARS[i] ELSE "-"]

(***************************************************************************)
(* generate.rs: PasswordTable.                                             *)
(***************************************************************************)
RECURSIVE SumLen(_)
SumLen(sets) == IF sets = <<>> THEN 0 ELSE Len(Head(sets)) + SumLen(Tail(sets))

\* The inner loop without its i -= set.len().
RECURSIVE Walk_NoSubtract(_, _, _)
Walk_NoSubtract(sets, i, set_index) ==
  IF set_index >= Len(sets) THEN set_index
  ELSE IF i >= Len(sets[set_index + 1])
       THEN Walk_NoSubtract(sets, i, set_index + 1)
       ELSE set_index

\* The inner loop of new: walks the sets subtracting their sizes (0-based).
RECURSIVE Walk(_, _, _)
Walk(sets, i, set_index) ==
  IF set_index >= Len(sets) THEN set_index
  ELSE IF i >= Len(sets[set_index + 1])
       THEN Walk(sets, i - Len(sets[set_index + 1]), set_index + 1)
       ELSE set_index

SetIdx(sets, set_seed) == Walk(sets, set_seed % SumLen(sets), 0)

\* digest.chunks_exact(2): the number of complete chunks.
Chunks(digest) == Len(digest) \div 2

\* rows after the chunks i, i+1, ... have been pushed onto rows.
RECURSIVE PushChunks(_, _, _, _)
PushChunks(sets, digest, i, rows) ==
  IF i >= Chunks(digest) THEN rows
  ELSE LET set_seed  == digest[2 * i + 1]
           char_seed == digest[2 * i + 2]
           set_idx   == SetIdx(sets, set_seed)
       IN  PushChunks(sets, digest, i + 1,
             [rows EXCEPT ![set_idx + 1] = Append(@, <<i, char_seed>>)])

\* PasswordTable::new panics (remainder by zero, or an index past the rows)
\* exactly when there is a chunk to place and no character to place it on.
NewPanics(sets, digest) == Chunks(digest) > 0 /\ SumLen(sets) = 0

NewTable(target_len, sets, digest) ==
  [target_len |-> target_len,
   sets       |-> sets,
   rows       |-> PushChunks(sets, digest, 0, [r \in 1..Len(sets) |-> <<>>])]

\* min_freq of balance (sets.len() > 0).
MinFreq(t) == Min(2, t.target_len \div Len(t.sets))

RECURSIVE Repeat(_, _)
Repeat(x, n) == IF n <= 0 THEN <<>> ELSE <<x>> \o Repeat(x, n - 1)

\* compensations of balance: each deficient row (1-based here), repeated once
\* per missing cell, in row order.
RECURSIVE CompsFrom(_, _, _)
CompsFrom(rows, min_freq, i) ==
  IF i > Len(rows) THEN <<>>
  ELSE (IF Len(rows[i]) < min_freq
        THEN Repeat(i, min_freq - Len(rows[i])) ELSE <<>>)
       \o CompsFrom(rows, min_freq, i + 1)

Compensations(rows, min_freq) == CompsFrom(rows, min_freq, 1)

\* Donor with min_by in place of max_by: the FIRST row of minimal length.
Donor_MinBy(rows) ==
  IF Len(rows) = 0 THEN 0
  ELSE CHOOSE d \in 1..Len(rows) :
         /\ \A r \in 1..Len(rows) : Len(rows[r]) >= Len(rows[d])
         /\ \A r \in 1..(d - 1) : Len(rows[r]) > Len(rows[d])

\* iter_mut().max_by(len): the LAST row of maximal length (0 when no row).
Donor(rows) ==
  IF Len(rows) = 0 THEN 0
  ELSE CHOOSE d \in 1..Len(rows) :
         /\ \A r \in 1..Len(rows) : Len(rows[r]) <= Len(rows[d])
         /\ \A r \in (d + 1)..Len(rows) : Len(rows[r]) < Len(rows[d])

\* .and_then(|row| row.pop()) is None: the unwrap panics.
MovePanics(rows) == Donor(rows) = 0 \/ Len(rows[Donor(rows)]) = 0

\* MoveCell reading the donor's last cell without popping it.
MoveCell_NoPop(rows, i) ==
  LET d    == Donor(rows)
      cell == rows[d][Len(rows[d])]
  IN  [rows EXCEPT ![i] = Append(@, cell)]

\* MoveCell taking the donor's first cell instead of its last.
MoveCell_PopFront(rows, i) ==
  LET d      == Donor(rows)
      cell   == rows[d][1]
      popped == [rows EXCEPT ![d] = Tail(@)]
  IN  [popped EXCEPT ![i] = Append(@, cell)]

\* One iteration of the loop over compensations: pop the donor's last cell,
\* push it onto row i.
MoveCell(rows, i) ==
  LET d      == Donor(rows)
      cell   == rows[d][Len(rows[d])]
      popped == [rows EXCEPT ![d] = SubSeq(@, 1, Len(@) - 1)]
  IN  [popped EXCEPT ![i] = Append(@, cell)]

(***************************************************************************)
(* generate.rs: password().  State of one process calling it.              *)
(***************************************************************************)
VARIABLES
  key,          \* &str argument, a sequence of characters
  pepper,       \* &[u8] argument
  seed,         \* &Seed argument
  pc,           \* position in password(): call, hashed, created, moving,
                \*   build, finished, done
  config,       \* what hash() is handed: data, salt and the argon2 Config
  digest,       \* the bytes hash() returned
  table,        \* the PasswordTable
  comps,        \* balance: the compensations not yet served
  outcome,      \* how the call ended: running, panic (with its place), ok
  argon2,       \* the hash function as far as it was evaluated: request -> bytes
  history       \* the finished calls

pvars == <<key, pepper, seed, pc, config, digest, table, comps, outcome,
           argon2, history>>

\* Sample digest chunks <<set_selector, char_selector>> for a selection of
\* sets: per selected set one set_selector that new() maps to it, namely the
\* largest byte congruent to the set's first cumulative index modulo the
\* number of selected characters (so the remainder is taken for real).
RECURSIVE StartsFrom(_, _)
StartsFrom(sets, acc) ==
  IF sets = <<>> THEN {}
  ELSE {acc} \cup StartsFrom(Tail(sets), acc + Len(Head(sets)))

ChunkSamples(bits) ==
  LET sets == Get(bits)
      n    == SumLen(sets)
  IN  IF n = 0 THEN {<<0, 0>>}
      ELSE {<<st + n * ((255 - st) \div n), (7 * st + 3) % 256>> :
              st \in StartsFrom(sets, 0)}

RECURSIVE Flatten(_)
Flatten(chunks) ==
  IF chunks = <<>> THEN <<>> ELSE Head(chunks) \o Flatten(Tail(chunks))

\* The byte strings of n chunks drawn for argon2's output.
Digests(n, bits) == {Flatten(c) : c \in [1..n -> ChunkSamples(bits)]}

\* A pepper: LENGTH bytes (generate::pepper fills them at random; the samples
\* are constant fills).
LENGTH == 20
PepperOf(b) == [i \in 1..LENGTH |-> b]
Peppers == {PepperOf(17), PepperOf(42)}

Keys == {<<"k">>, <<"k", "e">>}
Identifiers == {<<"y">>, <<"e", "y">>}
Salts == {2, 258}
Usernames == {<<>>, <<"me">>}

\* seed.length values beyond the ordinary ones: 2^31 and 2^31 + 2.
BigLengths == {<<32768, 0>>, <<32768, 2>>}

NoTable == [target_len |-> 0, sets |-> <<>>, rows |-> <<>>]
NoConfig == [data |-> <<>>, salt |-> <<>>, secret |-> <<>>,
             variant |-> "none", hash_length |-> <<0, 0>>]

\* Arguments with every digest explored: all masks, lengths 1..MaxLen.
TableInputs ==
  [key : {<<"k">>}, pepper : {PepperOf(17)},
   seed : [identifier : {<<"y">>}, length : {Wide(n) : n \in 1..MaxLen},
           salt : {2}, characters : Masks, username : {<<>>}]]

\* Arguments varied in every field, short digests.
DeriveInputs ==
  [key : Keys, pepper : Peppers,
   seed : [identifier : Identifiers, length : {Wide(1)} \cup BigLengths,
           salt : Salts, characters : {1, 6}, username : Usernames]]

Inputs == TableInputs \cup DeriveInputs

\* u64::to_be_bytes for salts below 2^31.
Pow256(n) == IF n = 0 THEN 1 ELSE IF n = 1 THEN 256 ELSE IF n = 2 THEN 65536
             ELSE 16777216
ToBeBytes(n) ==
  [i \in 1..8 |-> IF i <= 4 THEN 0 ELSE (n \div Pow256(8 - i)) % 256]

\* config.hash_length = 4.max(target_len * 2) as u32
HashLength(length) == AsU32(Max4(Mul2(AsUsize(length))))

\* format!("{}{}", key, seed.identifier)
\* The username entering the hashed data.
HashData_WithUsername(k, s) == k \o s.identifier \o s.username

HashData(k, s) == k \o s.identifier

\* HashRequest salted with the number of calls made so far.
HashRequest_CallCounter(k, p, s) ==
  [data        |-> HashData(k, s),
   salt        |-> ToBeBytes(s.salt + Len(history)),
   secret      |-> p,
   variant     |-> "Argon2d",
   hash_length |-> HashLength(s.length)]

\* The request password() hands to hash(): lines 108-118.
HashRequest(k, p, s) ==
  [data        |-> HashData(k, s),
   salt        |-> ToBeBytes(s.salt),
   secret      |-> p,
   variant     |-> "Argon2d",
   hash_length |-> HashLength(s.length)]

\* argon2 rejects an output shorter than 4 bytes (and hash() unwraps).
HashFails(c) == c.hash_length[1] = 0 /\ c.hash_length[2] < 4

\* What argon2 returns for request c: the remembered bytes, or else any of the
\* sampled byte strings of the requested length.
HashOutputs(c) ==
  IF \E e \in argon2 : e.request = c
  THEN {e.bytes : e \in {x \in argon2 : x.request = c}}
  ELSE Digests(c.hash_length[2] \div 2, seed.characters)

PInit ==
  /\ \E inp \in Inputs : key = inp.key /\ pepper = inp.pepper /\ seed = inp.seed
  /\ pc = "call"
  /\ config = NoConfig
  /\ digest = <<>>
  /\ table = NoTable
  /\ comps = <<>>
  /\ outcome = <<"running">>
  /\ argon2 = {}
  /\ history = <<>>

\* password(), lines 107-118: the digest.
Hash ==
  /\ pc = "call"
  /\ LET c == HashRequest(key, pepper, seed) IN
       /\ config' = c
       /\ IF HashFails(c)
          THEN /\ pc' = "finished"
               /\ outcome' = <<"panic", "hash">>
               /\ UNCHANGED <<digest, argon2>>
          ELSE \E d \in HashOutputs(c) :
                 /\ digest' = d
                 /\ argon2' = argon2 \cup {[request |-> c, bytes |-> d]}
                 /\ pc' = "hashed"
                 /\ UNCHANGED outcome
  /\ UNCHANGED <<key, pepper, seed, table, comps, history>>

\* PasswordTable::new(seed.length, seed.characters.get(), &digest)
New ==
  /\ pc = "hashed"
  /\ LET sets == Get(seed.characters) IN
       IF NewPanics(sets, digest)
       THEN /\ pc' = "finished"
            /\ outcome' = <<"panic", "new">>
            /\ UNCHANGED table
       ELSE /\ table' = NewTable(AsU8(seed.length), sets, digest)
            /\ pc' = "created"
            /\ UNCHANGED outcome
  /\ UNCHANGED <<key, pepper, seed, config, digest, comps, argon2, history>>

\* balance(), lines 61-72: min_freq and the compensations.
BalanceBegin ==
  /\ pc = "created"
  /\ IF Len(table.sets) = 0
     THEN /\ pc' = "finished"
          /\ outcome' = <<"panic", "balance">>
          /\ UNCHANGED comps
     ELSE /\ comps' = Compensations(table.rows, MinFreq(table))
          /\ pc' = "moving"
          /\ UNCHANGED outcome
  /\ UNCHANGED <<key, pepper, seed, config, digest, table, argon2, history>>

\* The loop computing the deficits anew after every move.
BalanceMove_Recomputes ==
  /\ pc = "moving"
  /\ comps # <<>>
  /\ IF MovePanics(table.rows)
     THEN /\ pc' = "finished"
          /\ outcome' = <<"panic", "balance">>
          /\ UNCHANGED <<table, comps>>
     ELSE /\ table' = [table EXCEPT !.rows = MoveCell(table.rows, Head(comps))]
          /\ comps' = Compensations(MoveCell(table.rows, Head(comps)), MinFreq(table))
          /\ UNCHANGED <<pc, outcome>>
  /\ UNCHANGED <<key, pepper, seed, config, digest, argon2, history>>

\* balance(), lines 74-80: one compensation.
BalanceMove ==
  /\ pc = "moving"
  /\ comps # <<>>
  /\ IF MovePanics(table.rows)
     THEN /\ pc' = "finished"
          /\ outcome' = <<"panic", "balance">>
          /\ UNCHANGED <<table, comps>>
     ELSE /\ table' = [table EXCEPT !.rows = MoveCell(table.rows, Head(comps))]
          /\ comps' = Tail(comps)
          /\ UNCHANGED <<pc, outcome>>
  /\ UNCHANGED <<key, pepper, seed, config, digest, argon2, history>>

\* balance(), lines 81-84: the debug_assert (a panic in a debug build only).
BalanceEnd ==
  /\ pc = "moving"
  /\ comps = <<>>
  /\ IF \E r \in 1..Len(table.rows) : Len(table.rows[r]) < MinFreq(table)
     THEN \E debug \in BOOLEAN :
            IF debug
            THEN pc' = "finished" /\ outcome' = <<"panic", "debug_assert">>
            ELSE pc' = "build" /\ UNCHANGED outcome
     ELSE pc' = "build" /\ UNCHANGED outcome
  /\ UNCHANGED <<key, pepper, seed, config, digest, table, comps, argon2, history>>

\* build(): todo!()
Build ==
  /\ pc = "build"
  /\ pc' = "finished"
  /\ outcome' = <<"panic", "build">>
  /\ UNCHANGED <<key, pepper, seed, config, digest, table, comps, argon2, history>>

\* The call is over; the caller calls password() again with the same arguments.
Finish ==
  /\ pc = "finished"
  /\ history' = Append(history, [config |-> config, digest |-> digest,
                                 table |-> table, outcome |-> outcome])
  /\ pc' = IF history = <<>> THEN "call" ELSE "done"
  /\ config' = NoConfig
  /\ digest' = <<>>
  /\ table' = NoTable
  /\ comps' = <<>>
  /\ outcome' = <<"running">>
  /\ UNCHANGED <<key, pepper, seed, argon2>>

(***************************************************************************)
(* lib.rs: Vault, and the vault folder on disk.                            *)
(***************************************************************************)
VARIABLES
  vault,        \* the Vault value the process holds (NoVault before new/load)
  disk,         \* the vault folder: file path -> contents (NoFile if absent)
  vpc,          \* the process: idle, password (inside Vault::password), panicked
  last,         \* the last Vault call and what it returned
  born,         \* per path, what the successful Vault::new wrote down
  nops          \* the number of Vault calls made

vvars == <<vault, disk, vpc, last, born, nops>>

(***************************************************************************)
(* terminal: tui/input.rs (StringInput) and tui/vault_view.rs (VaultView). *)
(* The view owns the Vault above; these are its other fields.              *)
(***************************************************************************)
VARIABLES
  filter,       \* a StringInput: value (Vec<char>), caret, hidden
  displayed,    \* VaultView::displayed, indices into vault.seeds()
  table_state,  \* TableState::selected(): NoRow or a row of displayed
  tpc,          \* the terminal process: none, running, panicked, error
  event         \* the last call or key event handled, and what it returned

uvars == <<filter, displayed, table_state, tpc, event>>

\* Option<usize>::None
NoRow == 0 - 1

\* StringInput::default()
DefaultInput == [value |-> <<>>, caret |-> 0, hidden |-> FALSE]

\* No terminal is running.
UIdle ==
  /\ filter = DefaultInput
  /\ displayed = <<>>
  /\ table_state = NoRow
  /\ tpc = "none"
  /\ event = [key |-> "none"]

UPPER ==
  <<"A", "B", "C", "D", "E", "F", "G", "H", "I", "J", "K", "L", "M", "N", "O",
  "P", "Q", "R", "S", "T", "U", "V", "W", "X", "Y", "Z">>
LOWER ==
  <<"a", "b", "c", "d", "e", "f", "g", "h", "i", "j", "k", "l", "m", "n", "o",
  "p", "q", "r", "s", "t", "u", "v", "w", "x", "y", "z">>
DIGITS == <<"0", "1", "2", "3", "4", "5", "6", "7", "8", "9">>

EXTENSION == <<".", "v", "a", "u", "l", "t">>
LEGAL_SYMBOLS == <<".", "_", "-">>

Contains(str, c) == \E i \in 1..Len(str) : str[i] = c

\* char::to_ascii_lowercase
ToAsciiLowercase(c) ==
  IF Contains(UPPER, c)
  THEN LOWER[CHOOSE i \in 1..Len(UPPER) : UPPER[i] = c]
  ELSE c

\* char::is_alphanumeric: the letters outside ASCII are alphabetic too.
IsAlphanumeric(c) ==
  \/ Contains(UPPER, c) \/ Contains(LOWER, c) \/ Contains(DIGITS, c)
  \/ c \in {"U+00E5", "U+00E4", "U+00F6"}

\* The closure of filter_map in path_of: the kept character, or <<>>.
NormalizeChar(c) ==
  IF Contains(LEGAL_SYMBOLS, c) THEN <<c>>
  ELSE IF IsAlphanumeric(c) THEN <<ToAsciiLowercase(c)>>
  ELSE IF c = " " THEN <<"_">>
  ELSE <<>>

\* The characters the closure keeps, in order (evaluated by halves).
RECURSIVE Normalize(_)
Normalize(str) ==
  IF str = <<>> THEN <<>>
  ELSE IF Len(str) = 1 THEN NormalizeChar(str[1])
  ELSE LET half == Len(str) \div 2 IN
         Normalize(SubSeq(str, 1, half)) \o Normalize(SubSeq(str, half + 1, Len(str)))

\* take without its limit.
Take_Unbounded(str, n) == str

Take(str, n) == SubSeq(str, 1, Min(n, Len(str)))

\* Characters outside ASCII are written by their code point.  Those the
\* repository's test of path_of shows the transliteration of, and one that
\* has none.
NonAscii == {"U+00E5", "U+00E4", "U+00F6", "U+E000"}

\* deunicode's ascii_chars() for one character: ASCII is left as it is, a
\* character without a known representation gives None, which flatten()
\* discards.
AsciiChars(c) ==
  CASE c = "U+00E5" -> <<"a">>
    [] c = "U+00E4" -> <<"a">>
    [] c = "U+00F6" -> <<"o">>
    [] c = "U+E000" -> <<>>
    [] OTHER -> <<c>>

\* .ascii_chars().flatten().flat_map(|str| str.chars())
RECURSIVE Transliterate(_)
Transliterate(str) ==
  IF str = <<>> THEN <<>>
  ELSE IF Len(str) = 1 THEN AsciiChars(str[1])
  ELSE LET half == Len(str) \div 2 IN
         Transliterate(SubSeq(str, 1, half))
           \o Transliterate(SubSeq(str, half + 1, Len(str)))

\* Vault::path_of: the folder and the file name.
PathOf(folder, identifier) ==
  <<folder,
    Take(Normalize(Transliterate(identifier)), 255 - Len(EXTENSION)) \o EXTENSION>>

\* The one vault folder of the model.
Folder == "vaults"

NoVault == [none |-> TRUE]
NoFile == [absent |-> TRUE]
\* The contents a failed write leaves behind: not parseable.
Truncated == [truncated |-> TRUE]

\* serde_with's Base64 of a byte string, and its inverse.
Base64Encode(bytes) == <<"base64", bytes>>
Base64Decode(text) == text[2]

\* to_string_pretty writing every username as null.
ToJson_NullUsername(v) ==
  [identifier |-> v.identifier,
   pepper     |-> Base64Encode(v.pepper),
   seeds      |-> [i \in 1..Len(v.seeds) |->
                    [identifier |-> v.seeds[i].identifier,
                     length     |-> v.seeds[i].length,
                     salt       |-> v.seeds[i].salt,
                     characters |-> [bits |-> v.seeds[i].characters],
                     username   |-> <<>>]],
   auth_token |-> Base64Encode(v.auth_token)]

\* serde_json::to_string_pretty(self): path is skipped, pepper and auth_token
\* are written as Base64, characters as its bits.
ToJson(v) ==
  [identifier |-> v.identifier,
   pepper     |-> Base64Encode(v.pepper),
   seeds      |-> [i \in 1..Len(v.seeds) |->
                    [identifier |-> v.seeds[i].identifier,
                     length     |-> v.seeds[i].length,
                     salt       |-> v.seeds[i].salt,
                     characters |-> [bits |-> v.seeds[i].characters],
                     username   |-> v.seeds[i].username]],
   auth_token |-> Base64Encode(v.auth_token)]

\* serde_json::from_str::<Vault> fails on contents that are no vault.
ParseFails(contents) == contents = Truncated

\* FromJson reading the pepper from the auth_token field.
FromJson_WrongField(contents, path) ==
  [path       |-> path,
   identifier |-> contents.identifier,
   pepper     |-> Base64Decode(contents.auth_token),
   seeds      |-> [i \in 1..Len(contents.seeds) |->
                    [identifier |-> contents.seeds[i].identifier,
                     length     |-> contents.seeds[i].length,
                     salt       |-> contents.seeds[i].salt,
                     characters |-> contents.seeds[i].characters.bits,
                     username   |-> contents.seeds[i].username]],
   auth_token |-> Base64Decode(contents.auth_token)]

\* serde_json::from_str::<Vault>, then vault.path = path.
FromJson(contents, path) ==
  [path       |-> path,
   identifier |-> contents.identifier,
   pepper     |-> Base64Decode(contents.pepper),
   seeds      |-> [i \in 1..Len(contents.seeds) |->
                    [identifier |-> contents.seeds[i].identifier,
                     length     |-> contents.seeds[i].length,
                     salt       |-> contents.seeds[i].salt,
                     characters |-> contents.seeds[i].characters.bits,
                     username   |-> contents.seeds[i].username]],
   auth_token |-> Base64Decode(contents.auth_token)]

\* argon2::Config::default().hash_length
DefaultHashLength == 32

\* generate::auth_token: hash(key, vault_pepper, Config::default()).  Of these
\* bytes only equality is ever used, so argon2's output is kept as the term
\* "the hash of this request": one value per request, different requests
\* giving different values.
AuthToken(k, vault_pepper) ==
  <<"argon2",
    [data        |-> k,
     salt        |-> vault_pepper,
     secret      |-> <<>>,
     variant     |-> "default",
     hash_length |-> Wide(DefaultHashLength)]>>

\* Identifiers of vaults: "t" and "T" normalize to the same file name.
VaultIdentifiers == {<<"t">>, <<"T">>, <<"u">>}
VaultKeys == {<<"k">>, <<"q">>}
VaultPaths == {PathOf(Folder, id) : id \in VaultIdentifiers}

\* The seeds pushed into vaults.
SeedSamples ==
  {[identifier |-> <<"y">>, length |-> Wide(1), salt |-> 2, characters |-> 1,
    username |-> <<>>],
   [identifier |-> <<"e", "y">>, length |-> Wide(2), salt |-> 258,
    characters |-> 6, username |-> <<"me">>]}

NoSeed == [identifier |-> <<>>, length |-> Wide(0), salt |-> 0, characters |-> 0,
           username |-> <<>>]

\* How a file-system call ends: it succeeds, it fails before touching the
\* file, or (a write) it fails after the file was created and truncated.
IoOutcomes == {"ok", "failed", "failed_midway"}

VInit ==
  /\ vault = NoVault
  /\ disk = [p \in VaultPaths |-> NoFile]
  /\ vpc = "idle"
  /\ last = [op |-> "none"]
  /\ born = [p \in VaultPaths |-> NoVault]
  /\ nops = 0

Ready == vpc = "idle" /\ nops < MaxOps

Held == Ready /\ vault # NoVault

\* fs::write(&v.path, to_string_pretty(v))
Written(v, io) ==
  IF io = "ok" THEN [disk EXCEPT ![v.path] = ToJson(v)]
  ELSE IF io = "failed_midway" THEN [disk EXCEPT ![v.path] = Truncated]
  ELSE disk

\* The Vault that new builds.
NewVault(identifier, k, p) ==
  [path       |-> PathOf(Folder, identifier),
   identifier |-> identifier,
   seeds      |-> <<>>,
   pepper     |-> p,
   auth_token |-> AuthToken(k, p)]

\* Vault::new(vault_folder, identifier, key).  (The pepper and the token are
\* computed before path.exists() is asked; they are dropped on a conflict.)
\* create_dir_all returns Ok for a folder that is there, so it can fail only
\* while the folder holds no file.
VaultNew(identifier, k) ==
  /\ Ready
  /\ nops' = nops + 1
  /\ \E dir \in IF \A q \in VaultPaths : disk[q] = NoFile
                 THEN {"ok", "failed"} ELSE {"ok"} :
       LET path == PathOf(Folder, identifier)
           call == [op |-> "new", identifier |-> identifier, key |-> k]
       IN
         IF dir = "failed"
         THEN /\ last' = call @@ [result |-> <<"Err", "IO", Folder>>]
              /\ UNCHANGED <<vault, disk, born>>
         ELSE IF disk[path] # NoFile
         THEN /\ last' = call @@ [result |->
                            <<"Err", "VaultNameConflict", identifier>>]
              /\ UNCHANGED <<vault, disk, born>>
         ELSE \E p \in Peppers, io \in IoOutcomes :
                LET v == NewVault(identifier, k, p) IN
                  /\ disk' = Written(v, io)
                  /\ IF io = "ok"
                     THEN /\ vault' = v
                          /\ born' = [born EXCEPT ![path] =
                                        [key |-> k, pepper |-> p,
                                         auth_token |-> v.auth_token]]
                          /\ last' = call @@ [result |-> <<"Ok">>]
                     ELSE /\ last' = call @@ [result |-> <<"Err", "IO", path>>]
                          /\ UNCHANGED <<vault, born>>
  /\ UNCHANGED <<vpc, pvars, uvars>>

\* load deleting a file it cannot parse.
VaultLoad_Repairs(identifier) ==
  /\ Ready
  /\ nops' = nops + 1
  /\ \E io \in {"ok", "failed"} :
       LET path == PathOf(Folder, identifier) IN
         IF io = "failed" \/ disk[path] = NoFile
         THEN /\ last' = [op |-> "load", identifier |-> identifier,
                          result |-> <<"Err", "IO", path>>]
              /\ UNCHANGED vault
         ELSE IF ParseFails(disk[path])
         THEN /\ last' = [op |-> "load", identifier |-> identifier,
                          result |-> <<"Err", "JSON", path>>]
              /\ UNCHANGED vault
         ELSE /\ vault' = FromJson(disk[path], path)
              /\ last' = [op |-> "load", identifier |-> identifier,
                          result |-> <<"Ok">>]
  /\ disk' = IF disk[PathOf(Folder, identifier)] = Truncated
             THEN [disk EXCEPT ![PathOf(Folder, identifier)] = NoFile]
             ELSE disk
  /\ UNCHANGED <<vpc, born, pvars, uvars>>

\* Vault::load(vault_folder, identifier)
VaultLoad(identifier) ==
  /\ Ready
  /\ nops' = nops + 1
  /\ \E io \in {"ok", "failed"} :
       LET path == PathOf(Folder, identifier) IN
         IF io = "failed" \/ disk[path] = NoFile
         THEN /\ last' = [op |-> "load", identifier |-> identifier,
                          result |-> <<"Err", "IO", path>>]
              /\ UNCHANGED vault
         ELSE IF ParseFails(disk[path])
         THEN /\ last' = [op |-> "load", identifier |-> identifier,
                          result |-> <<"Err", "JSON", path>>]
              /\ UNCHANGED vault
         ELSE /\ vault' = FromJson(disk[path], path)
              /\ last' = [op |-> "load", identifier |-> identifier,
                          result |-> <<"Ok">>]
  /\ UNCHANGED <<disk, vpc, born, pvars, uvars>>

\* Vault::save(&self)
VaultSave ==
  /\ Held
  /\ nops' = nops + 1
  /\ \E io \in IoOutcomes :
       /\ disk' = Written(vault, io)
       /\ last' = [op |-> "save",
                   result |-> IF io = "ok" THEN <<"Ok">>
                              ELSE <<"Err", "IO", vault.path>>]
  /\ UNCHANGED <<vault, vpc, born, pvars, uvars>>

\* push writing the vault file as it goes.
VaultPush_Saves(s) ==
  /\ Held
  /\ Len(vault.seeds) < MaxSeeds
  /\ nops' = nops + 1
  /\ vault' = [vault EXCEPT !.seeds = Append(@, s)]
  /\ disk' = [disk EXCEPT ![vault.path] =
                ToJson([vault EXCEPT !.seeds = Append(@, s)])]
  /\ last' = [op |-> "push", seed |-> s, result |-> <<"Ok">>]
  /\ UNCHANGED <<vpc, born, pvars, uvars>>

\* Vault::push(&mut self, seed)
VaultPush(s) ==
  /\ Held
  /\ Len(vault.seeds) < MaxSeeds
  /\ nops' = nops + 1
  /\ vault' = [vault EXCEPT !.seeds = Append(@, s)]
  /\ last' = [op |-> "push", seed |-> s, result |-> <<"Ok">>]
  /\ UNCHANGED <<disk, vpc, born, pvars, uvars>>

\* Vec::pop in the place of Vec::remove: the last element goes, whatever the
\* index.
RemoveAt_Pop(seeds, index) == SubSeq(seeds, 1, Len(seeds) - 1)

\* Vec::remove(index): the elements after index shifted left.
RemoveAt(seeds, index) ==
  SubSeq(seeds, 1, index) \o SubSeq(seeds, index + 2, Len(seeds))

\* Vault::remove(&mut self, seed_index): Vec::remove panics when the index is
\* out of bounds.
VaultRemove(seed_index) ==
  /\ Held
  /\ nops' = nops + 1
  /\ IF seed_index >= Len(vault.seeds)
     THEN /\ vpc' = "panicked"
          /\ last' = [op |-> "remove", index |-> seed_index, result |-> <<"panic">>]
          /\ UNCHANGED vault
     ELSE /\ vault' = [vault EXCEPT !.seeds = RemoveAt(@, seed_index)]
          /\ last' = [op |-> "remove", index |-> seed_index, result |-> <<"Ok">>]
          /\ UNCHANGED vpc
  /\ UNCHANGED <<disk, born, pvars, uvars>>

\* Vault::get(&self, seed_index)
VaultGet(seed_index) ==
  /\ Held
  /\ nops' = nops + 1
  /\ last' = [op |-> "get", index |-> seed_index,
              result |-> IF seed_index < Len(vault.seeds)
                         THEN <<"Ok", vault.seeds[seed_index + 1]>>
                         ELSE <<"Err", "SeedIndex", seed_index>>]
  /\ UNCHANGED <<vault, disk, vpc, born, pvars, uvars>>

\* slice::swap(a, b)
SwapAt(seeds, a, b) ==
  [seeds EXCEPT ![a + 1] = seeds[b + 1], ![b + 1] = seeds[a + 1]]

\* swap reporting the smaller of its two indices.
VaultSwap_MinIndex(a, b) ==
  /\ Held
  /\ nops' = nops + 1
  /\ LET max == IF a > b THEN a ELSE b
         min == IF a > b THEN b ELSE a IN
       IF max >= Len(vault.seeds)
       THEN /\ last' = [op |-> "swap", a |-> a, b |-> b,
                        result |-> <<"Err", "SeedIndex", min>>]
            /\ UNCHANGED vault
       ELSE /\ vault' = [vault EXCEPT !.seeds = SwapAt(@, a, b)]
            /\ last' = [op |-> "swap", a |-> a, b |-> b, result |-> <<"Ok">>]
  /\ UNCHANGED <<disk, vpc, born, pvars, uvars>>

\* Vault::swap(&mut self, a, b)
VaultSwap(a, b) ==
  /\ Held
  /\ nops' = nops + 1
  /\ LET max == IF a > b THEN a ELSE b IN
       IF max >= Len(vault.seeds)
       THEN /\ last' = [op |-> "swap", a |-> a, b |-> b,
                        result |-> <<"Err", "SeedIndex", max>>]
            /\ UNCHANGED vault
       ELSE /\ vault' = [vault EXCEPT !.seeds = SwapAt(@, a, b)]
            /\ last' = [op |-> "swap", a |-> a, b |-> b, result |-> <<"Ok">>]
  /\ UNCHANGED <<disk, vpc, born, pvars, uvars>>

\* verify_key hashing the key without the vault's pepper.
VerifyKey_NoPepper(v, k) == AuthToken(k, <<>>) = v.auth_token

\* Vault::verify_key(&self, key)
VerifyKey(v, k) == AuthToken(k, v.pepper) = v.auth_token

VaultVerifyKey(k) ==
  /\ Held
  /\ nops' = nops + 1
  /\ last' = [op |-> "verify_key", key |-> k, result |-> VerifyKey(vault, k)]
  /\ UNCHANGED <<vault, disk, vpc, born, pvars, uvars>>

\* Vault::password(&self, seed, key), called for the i-th seed of the vault:
\* enters generate::password.
VaultPassword(i, k) ==
  /\ Held
  /\ i <= Len(vault.seeds)
  /\ nops' = nops + 1
  /\ vpc' = "password"
  /\ key' = k
  /\ pepper' = vault.pepper
  /\ seed' = vault.seeds[i]
  /\ pc' = "call"
  /\ last' = [op |-> "password", seed |-> vault.seeds[i], key |-> k,
              result |-> <<"running">>]
  /\ UNCHANGED <<vault, disk, born, config, digest, table, comps, outcome,
                 argon2, history, uvars>>

\* generate::password has panicked: so has the process.
PasswordUnwinds ==
  /\ vpc = "password"
  /\ pc = "finished"
  /\ outcome[1] = "panic"
  /\ vpc' = "panicked"
  /\ last' = [last EXCEPT !.result = outcome]
  /\ UNCHANGED <<vault, disk, born, nops, pvars, uvars>>

\* The indices tried: in range, and one past the longest list.
Indices == 0..MaxSeeds

VNext ==
  \/ \E id \in VaultIdentifiers, k \in VaultKeys : VaultNew(id, k)
  \/ \E id \in VaultIdentifiers : VaultLoad(id)
  \/ VaultSave
  \/ \E s \in SeedSamples : VaultPush(s)
  \/ \E i \in Indices : VaultRemove(i)
  \/ \E i \in Indices : VaultGet(i)
  \/ \E a \in Indices, b \in Indices : VaultSwap(a, b)
  \/ \E k \in VaultKeys : VaultVerifyKey(k)
  \/ \E i \in 1..MaxSeeds, k \in VaultKeys : VaultPassword(i, k)
  \/ PasswordUnwinds

vars == <<pvars, vvars, uvars>>

\* password() called on its own: no Vault.
Init ==
  /\ PInit
  /\ VInit
  /\ UIdle

Next ==
  \/ Hash /\ UNCHANGED <<vvars, uvars>>
  \/ New /\ UNCHANGED <<vvars, uvars>>
  \/ BalanceBegin /\ UNCHANGED <<vvars, uvars>>
  \/ BalanceMove /\ UNCHANGED <<vvars, uvars>>
  \/ BalanceEnd /\ UNCHANGED <<vvars, uvars>>
  \/ Build /\ UNCHANGED <<vvars, uvars>>
  \/ Finish /\ UNCHANGED <<vvars, uvars>>

Spec == Init /\ [][Next]_vars

\* The Vault API, generate::password running inside Vault::password.
\* No call of generate::password is under way.
PIdle ==
  /\ key = <<>> /\ pepper = <<>> /\ seed = NoSeed
  /\ pc = "idle"
  /\ config = NoConfig
  /\ digest = <<>>
  /\ table = NoTable
  /\ comps = <<>>
  /\ outcome = <<"running">>
  /\ argon2 = {}
  /\ history = <<>>

VaultInit ==
  /\ VInit
  /\ PIdle
  /\ UIdle

VaultNext ==
  \/ VNext
  \/ Hash /\ UNCHANGED <<vvars, uvars>>
  \/ New /\ UNCHANGED <<vvars, uvars>>
  \/ BalanceBegin /\ UNCHANGED <<vvars, uvars>>
  \/ BalanceMove /\ UNCHANGED <<vvars, uvars>>
  \/ BalanceEnd /\ UNCHANGED <<vvars, uvars>>
  \/ Build /\ UNCHANGED <<vvars, uvars>>

VaultSpec == VaultInit /\ [][VaultNext]_vars

(***************************************************************************)
(* Vocabulary of the properties of password().                             *)
(***************************************************************************)
\* A seed whose length fits every integer type on the way (1..255) and that
\* selects at least one set.
Ordinary(s) ==
  /\ s.length[1] = 0 /\ s.length[2] >= 1 /\ s.length[2] < 256
  /\ Get(s.characters) # <<>>

\* The call returned a String (outcome <<"ok", bytes>>).
Returned == outcome[1] = "ok"

\* The cells of a table as <<position, selector, row>>.
CellsOf(rows) ==
  {<<rows[r][j][1], rows[r][j][2], r>> : <<r, j>> \in
     {x \in (1..Len(rows)) \X (1..MaxLen + 4) : x[2] <= Len(rows[x[1]])}}

RECURSIVE TotalLen(_)
TotalLen(rows) == IF rows = <<>> THEN 0 ELSE Len(Head(rows)) + TotalLen(Tail(rows))

\* The cell with the k-th smallest position.
KthCell(rows, k) ==
  CHOOSE c \in CellsOf(rows) :
    Cardinality({d \in CellsOf(rows) : d[1] < c[1]}) = k - 1

\* The character section 4.4 of the specification assigns to a cell.
CharOf(t, c) == t.sets[c[3]][(c[2] % Len(t.sets[c[3]])) + 1]

\* The number of characters of string str that belong to set.
CountIn(str, set) ==
  Cardinality({k \in 1..Len(str) : \E j \in 1..Len(set) : set[j] = str[k]})

\* The call of an ordinary seed is over.
OrdinaryCallOver == pc = "finished" /\ Ordinary(seed)

(***************************************************************************)
(* C1.  For every seed with length >= 1 and a selected set, password()     *)
(* returns, and the String it returns has exactly seed.length characters.  *)
(* Stated for the ordinary seeds; the code reaches build(), which is       *)
(* todo!(), and panics.                                                    *)
(***************************************************************************)
C1_ReturnsLength ==
  OrdinaryCallOver => (Returned /\ Len(outcome[2]) = seed.length[2])

(***************************************************************************)
(* C2.  Every character of the returned String is the character            *)
(* C[char_selector mod len(C)] of a retained cell of a selected set C; no  *)
(* character of an unselected set appears.                                 *)
(***************************************************************************)
C2_Alphabet ==
  OrdinaryCallOver =>
    /\ Returned
    /\ \A k \in 1..Len(outcome[2]) :
         /\ \E c \in CellsOf(table.rows) : outcome[2][k] = CharOf(table, c)
         /\ \E r \in 1..Len(table.sets) : \E j \in 1..Len(table.sets[r]) :
              outcome[2][k] = table.sets[r][j]

(***************************************************************************)
(* C3.  For seed.length >= 2 * (number of selected sets) the returned      *)
(* String holds, of each selected set, at least                            *)
(* min(2, seed.length / number of selected sets) characters.               *)
(***************************************************************************)
C3_MinimumRepresentation ==
  (OrdinaryCallOver /\ seed.length[2] >= 2 * Len(Get(seed.characters))) =>
    /\ Returned
    /\ \A r \in 1..Len(Get(seed.characters)) :
         CountIn(outcome[2], Get(seed.characters)[r])
           >= Min(2, seed.length[2] \div Len(Get(seed.characters)))

C5_OrderedByPosition ==
  OrdinaryCallOver =>
    /\ Returned
    /\ Len(outcome[2]) = Min(table.target_len, TotalLen(table.rows))
    /\ \A k \in 1..Len(outcome[2]) :
         outcome[2][k] = CharOf(table, KthCell(table.rows, k))

(***************************************************************************)
(* C6.  balance conserves the cells: once the table is built, and after    *)
(* every single move, the cells over all rows are exactly the cells        *)
(* (i, char_selector) of the digest's chunks, each position in exactly one *)
(* row, and there is one row per selected set.                             *)
(***************************************************************************)
TableBuilt == pc \in {"created", "moving", "build"}

C6_CellsConserved ==
  TableBuilt =>
    /\ {<<c[1], c[2]>> : c \in CellsOf(table.rows)}
         = {<<i, digest[2 * i + 2]>> : i \in 0..(Chunks(digest) - 1)}
    /\ TotalLen(table.rows) = Chunks(digest)
    /\ Len(table.rows) = Len(Get(seed.characters))

\* balance has moved a cell, and a compensation is still to be served.
C6_Witness ==
  /\ pc = "moving"
  /\ comps # <<>>
  /\ table.rows # NewTable(AsU8(seed.length), Get(seed.characters), digest).rows

(***************************************************************************)
(* C7.  For a table built from a digest of max(4, 2 * target_len) bytes    *)
(* with target_len >= 1 and 1 to 5 sets, balance ends with every row       *)
(* holding at least min_freq cells: its unwrap and its debug_assert never  *)
(* fail.                                                                   *)
(***************************************************************************)
C7_Premise ==
  /\ table.target_len >= 1
  /\ Len(table.sets) \in 1..5
  /\ Len(digest) = (IF 2 * table.target_len < 4 THEN 4 ELSE 2 * table.target_len)

C7_MinFreqReached ==
  /\ (pc = "build" /\ C7_Premise) =>
       \A r \in 1..Len(table.rows) : Len(table.rows[r]) >= MinFreq(table)
  /\ (pc = "finished" /\ C7_Premise) =>
       outcome \notin {<<"panic", "balance">>, <<"panic", "debug_assert">>}

\* balance is over, min_freq is 2 and the first row was among the deficient.
C7_Witness ==
  /\ pc = "build"
  /\ C7_Premise
  /\ MinFreq(table) = 2
  /\ Len(table.sets) >= 2
  /\ Len(NewTable(AsU8(seed.length), Get(seed.characters), digest).rows[1]) = 0

(***************************************************************************)
(* C8.  The digest is requested with data = key followed by                *)
(* seed.identifier, secret = pepper, salt = the 8 big-endian bytes of      *)
(* seed.salt and output length exactly max(4, 2 * seed.length).            *)
(***************************************************************************)
C8_HashRequest ==
  (pc # "call" /\ pc # "done") =>
    /\ config.data = key \o seed.identifier
    /\ config.secret = pepper
    /\ Len(config.salt) = 8
    /\ \A i \in 1..4 : config.salt[i] = 0
    /\ ((config.salt[5] * 256 + config.salt[6]) * 256 + config.salt[7]) * 256
         + config.salt[8] = seed.salt
    /\ config.hash_length = Max4(Mul2(seed.length))

(***************************************************************************)
(* Vocabulary of the properties of the Vault.                              *)
(***************************************************************************)
\* The file at path p holds a vault (it exists and parses).
HoldsVault(p) == disk[p] # NoFile /\ ~ParseFails(disk[p])

(***************************************************************************)
(* C9.  The pepper of a vault is fixed at creation: whatever calls follow  *)
(* Vault::new, the Vault held (also one loaded from the file) has the      *)
(* pepper new generated for its path, and so has every vault file written. *)
(***************************************************************************)
C9_PepperFixed ==
  /\ vault # NoVault =>
       /\ born[vault.path] # NoVault
       /\ vault.pepper = born[vault.path].pepper
  /\ \A p \in VaultPaths :
       HoldsVault(p) =>
         /\ born[p] # NoVault
         /\ Base64Decode(disk[p].pepper) = born[p].pepper

\* A vault with a seed was saved and loaded again.
C9_Witness ==
  /\ last.op = "load" /\ last.result = <<"Ok">>
  /\ vault # NoVault
  /\ vault.seeds # <<>>
  /\ HoldsVault(vault.path)

(***************************************************************************)
(* C10.  verify_key(k) is true exactly when auth_token(k, pepper) is the   *)
(* stored auth_token; it is true for the key given to Vault::new; the      *)
(* stored auth_token never changes.                                        *)
(***************************************************************************)
C10_VerifyKey ==
  /\ vault # NoVault =>
       /\ born[vault.path] # NoVault
       /\ vault.auth_token = born[vault.path].auth_token
  /\ (last.op = "verify_key" /\ vpc = "idle") =>
       /\ last.result = (AuthToken(last.key, vault.pepper) = vault.auth_token)
       /\ last.key = born[vault.path].key => last.result = TRUE
  /\ \A p \in VaultPaths :
       HoldsVault(p) => Base64Decode(disk[p].auth_token) = born[p].auth_token

\* The creation key was verified on a vault that holds a seed.
C10_Witness ==
  /\ last.op = "verify_key"
  /\ last.result = TRUE
  /\ vault.seeds # <<>>
  /\ last.key = born[vault.path].key

(***************************************************************************)
(* Vocabulary of the properties of the Vault API.                          *)
(***************************************************************************)
\* A step of the Vault API: one call of the named operation.
Called(op) == nops' = nops + 1 /\ last'.op = op

\* The result is the error of this kind.
IsErr(result, kind) == result[1] = "Err" /\ result[2] = kind

\* A vault file of this identifier is on disk: the file at its path is there
\* and is not the vault of another identifier.
VaultOnDisk(id) ==
  LET f == disk[PathOf(Folder, id)] IN
    f # NoFile /\ (ParseFails(f) \/ f.identifier = id)

(***************************************************************************)
(* C11.  Vault::new(folder, identifier, key): when a vault of that         *)
(* identifier is on disk it returns VaultNameConflict and leaves every     *)
(* file as it was; when none is (and the file system does not fail) it     *)
(* returns the new Vault and has written a file with the identifier, a     *)
(* pepper of LENGTH bytes, the auth token of (key, pepper) and no seeds.   *)
(***************************************************************************)
C11_New ==
  [][Called("new") =>
      LET id   == last'.identifier
          path == PathOf(Folder, id)
      IN  /\ VaultOnDisk(id) =>
               /\ IsErr(last'.result, "VaultNameConflict")
               /\ last'.result[3] = id
               /\ disk' = disk
          /\ (~VaultOnDisk(id) /\ ~IsErr(last'.result, "IO")) =>
               /\ last'.result = <<"Ok">>
               /\ disk'[path] # NoFile /\ ~ParseFails(disk'[path])
               /\ disk'[path].identifier = id
               /\ disk'[path].seeds = <<>>
               /\ Base64Decode(disk'[path].pepper) \in Peppers
               /\ Base64Decode(disk'[path].auth_token) =
                    AuthToken(last'.key, Base64Decode(disk'[path].pepper))
               /\ \A q \in VaultPaths \ {path} : disk'[q] = disk[q]]_vars

(***************************************************************************)
(* C12.  remove(index) with index >= seeds.len() returns the typed error   *)
(* SeedIndex carrying that index, does not abort the program, and leaves   *)
(* the Vault (its seed list included) as it was.                           *)
(***************************************************************************)
C12_RemoveOutOfBounds ==
  [][(Called("remove") /\ last'.index >= Len(vault.seeds)) =>
      /\ IsErr(last'.result, "SeedIndex")
      /\ last'.result[3] = last'.index
      /\ vpc' # "panicked"
      /\ vault' = vault]_vars

(***************************************************************************)
(* C13.  swap(a, b) with max(a, b) >= seeds.len() returns SeedIndex        *)
(* carrying max(a, b), get(i) with i >= seeds.len() returns SeedIndex      *)
(* carrying i; the index carried is an argument and is out of range; the   *)
(* Vault stays as it was.  With every index in range neither returns an    *)
(* error.                                                                  *)
(***************************************************************************)
C13_SeedIndex ==
  [][/\ Called("swap") =>
          LET n  == Len(vault.seeds)
              mx == IF last'.a > last'.b THEN last'.a ELSE last'.b
          IN  IF last'.a >= n \/ last'.b >= n
              THEN /\ IsErr(last'.result, "SeedIndex")
                   /\ last'.result[3] = mx
                   /\ last'.result[3] \in {last'.a, last'.b}
                   /\ last'.result[3] >= n
                   /\ vault' = vault
              ELSE last'.result = <<"Ok">>
     /\ Called("get") =>
          LET n == Len(vault.seeds) IN
              /\ vault' = vault
              /\ IF last'.index >= n
                 THEN /\ IsErr(last'.result, "SeedIndex")
                      /\ last'.result[3] = last'.index
                 ELSE /\ last'.result[1] = "Ok"
                      /\ last'.result[2] = vault.seeds[last'.index + 1]]_vars

\* swap was refused with one index in range and the other not.
C13_Witness ==
  /\ last.op = "swap"
  /\ IsErr(last.result, "SeedIndex")
  /\ last.a < Len(vault.seeds)
  /\ last.b >= Len(vault.seeds)

MaxIdLen == 2

\* The characters of the identifiers tried: kept symbols, letters of both
\* cases, a digit, the space, dropped ASCII, and characters outside ASCII.
PathAlphabet == {".", "_", "-", "T", "e", "7", " ", "/", "U+00E5", "U+E000"}

RECURSIVE StringsUpTo(_, _)
StringsUpTo(alphabet, n) ==
  IF n = 0 THEN {<<>>}
  ELSE LET shorter == StringsUpTo(alphabet, n - 1) IN
         shorter \cup {Append(str, c) : str \in shorter, c \in alphabet}

\* An identifier of n characters: "A", with a dropped "!" at every seventh
\* place.
LongIdentifier(n) == [i \in 1..n |-> IF i % 7 = 0 THEN "!" ELSE "A"]

\* The identifiers path_of is called with: all short ones, the examples of
\* the test, and long ones around the limit of the file name.
PathIdentifiers ==
  StringsUpTo(PathAlphabet, MaxIdLen)
    \cup {<<"t", "e", "s", "t">>,
          <<"H", "e", "l", "l", "o", " ", "w", "o", "r", "l", "d">>,
          <<"U+00E5", "U+00E4", "U+00F6">>}
    \cup {LongIdentifier(255 - Len(EXTENSION) + d) : d \in 0..(60 + MaxIdLen)}

PathInit ==
  /\ PIdle
  /\ UIdle
  /\ vault = NoVault
  /\ disk = [p \in VaultPaths |-> NoFile]
  /\ vpc = "idle"
  /\ born = [p \in VaultPaths |-> NoVault]
  /\ nops = 0
  /\ \E id \in PathIdentifiers :
       last = [op |-> "path_of", folder |-> Folder, identifier |-> id,
               result |-> <<"running">>]

\* Vault::path_of(folder, identifier) returns.
PathOfCall ==
  /\ last.op = "path_of"
  /\ last.result = <<"running">>
  /\ last' = [last EXCEPT !.result = <<"Ok", PathOf(last.folder, last.identifier)>>]
  /\ UNCHANGED <<vault, disk, vpc, born, nops, pvars, uvars>>

PathNext == PathOfCall

PathSpec == PathInit /\ [][PathNext]_vars

\* The character of the file name that a kept character becomes.
SlugChar(c) ==
  IF c \in {".", "_", "-"} THEN c
  ELSE IF c = " " THEN "_"
  ELSE IF \E i \in 1..Len(UPPER) : UPPER[i] = c
       THEN LOWER[CHOOSE i \in 1..Len(UPPER) : UPPER[i] = c]
       ELSE c

\* The characters that are kept: '.', '_', '-', alphanumerics and the space.
SlugKeeps(c) ==
  \/ c \in {".", "_", "-", " "}
  \/ \E i \in 1..Len(UPPER) : c \in {UPPER[i], LOWER[i]}
  \/ \E i \in 1..Len(DIGITS) : c = DIGITS[i]

\* The normalized identifier before truncation.
Slug(identifier) ==
  LET kept == SelectSeq(Transliterate(identifier), SlugKeeps)
  IN  [i \in 1..Len(kept) |-> SlugChar(kept[i])]

C17_PasswordInputs ==
  /\ []((last.op = "password") =>
          /\ key = last.key /\ pepper = vault.pepper /\ seed = last.seed
          /\ last.result[1] # "Err"
          /\ \A u \in Usernames :
               LET other == [seed EXCEPT !.username = u] IN
                 /\ pc \notin {"call", "idle"} =>
                      config = HashRequest(key, vault.pepper, other)
                 /\ pc = "created" =>
                      table = NewTable(AsU8(other.length), Get(other.characters),
                                       digest))
  /\ [][Called("password") =>
          /\ vpc' = "password" /\ pc' = "call"
          /\ vault' = vault /\ disk' = disk]_vars

\* password ran to its end for a key that verify_key rejects and a seed with
\* a username.
C17_Witness ==
  /\ last.op = "password"
  /\ pc = "finished"
  /\ ~VerifyKey(vault, last.key)
  /\ last.seed.username # <<>>
  /\ digest # <<>>

(***************************************************************************)
(* Characters::get and to_string called on their own, for each mask.       *)
(***************************************************************************)
NotCalled == <<"not called">>

CharactersInit ==
  /\ PIdle
  /\ UIdle
  /\ vault = NoVault
  /\ disk = [p \in VaultPaths |-> NoFile]
  /\ vpc = "idle"
  /\ born = [p \in VaultPaths |-> NoVault]
  /\ nops = 0
  /\ \E bits \in Masks :
       last = [op |-> "characters", bits |-> bits, get |-> NotCalled,
               to_string |-> NotCalled]

\* Characters::get(&self) returns.
GetCall ==
  /\ last.op = "characters"
  /\ last.get = NotCalled
  /\ last' = [last EXCEPT !.get = <<"Ok", Get(last.bits)>>]
  /\ UNCHANGED <<vault, disk, vpc, born, nops, pvars, uvars>>

\* Characters::to_string(&self) returns.
ToStringCall ==
  /\ last.op = "characters"
  /\ last.to_string = NotCalled
  /\ last' = [last EXCEPT !.to_string = <<"Ok", CharactersToString(last.bits)>>]
  /\ UNCHANGED <<vault, disk, vpc, born, nops, pvars, uvars>>

CharactersNext ==
  \/ GetCall
  \/ ToStringCall

CharactersSpec == CharactersInit /\ [][CharactersNext]_vars

\* Flag bit i (0..4) of a mask, by arithmetic.
FlagBit(bits, i) == bits % (2 ^ (i + 1)) >= 2 ^ i

\* The classes a mask selects, as indices 0..4.
ClassesOf(bits) == {i \in 0..4 : FlagBit(bits, i)}

\* The k-th smallest of a set of numbers.
KthOf(set, k) == CHOOSE i \in set : Cardinality({j \in set : j < i}) = k - 1

(***************************************************************************)
(* C18.  For each of the 32 masks, flag bit i (0..4) denotes class i of    *)
(* upper, lower, numeric, special, rare: get() returns the byte arrays of  *)
(* the set bits in that order, as many as there are set bits, and          *)
(* to_string() returns five characters, the i-th being the i-th of "ULNSR" *)
(* if bit i is set and '-' otherwise.                                      *)
(***************************************************************************)
C18_Characters ==
  last.op = "characters" =>
    LET classes == ClassesOf(last.bits) IN
      /\ last.get # NotCalled =>
           LET sets == last.get[2] IN
             /\ Len(sets) = Cardinality(classes)
             /\ \A k \in 1..Len(sets) : sets[k] = SETS[KthOf(classes, k) + 1]
             /\ \A k \in 1..Len(sets) :
                  sets[k][1] = CASE KthOf(classes, k) = 0 -> 65
                                 [] KthOf(classes, k) = 1 -> 97
                                 [] KthOf(classes, k) = 2 -> 49
                                 [] KthOf(classes, k) = 3 -> 33
                                 [] KthOf(classes, k) = 4 -> 34
             /\ last.bits = 6 => sets = <<SETS[2], SETS[3]>>
      /\ last.to_string # NotCalled =>
           LET str == last.to_string[2] IN
             /\ Len(str) = 5
             /\ \A i \in 0..4 :
                  str[i + 1] = IF i \in classes
                               THEN <<"U", "L", "N", "S", "R">>[i + 1] ELSE "-"
             /\ last.bits = 17 => str = <<"U", "-", "-", "-", "R">>
             /\ last.bits = 2 => str = <<"-", "L", "-", "-", "-">>

\* Both were called for lower, numeric and special.
C18_Witness ==
  /\ last.op = "characters"
  /\ last.bits = 14
  /\ last.get = <<"Ok", <<SETS[2], SETS[3], SETS[4]>>>>
  /\ last.to_string = <<"Ok", <<"-", "L", "N", "S", "-">>>>

(***************************************************************************)
(* C19.  Vault::load returns the IO error carrying the computed path when  *)
(* the file does not exist or cannot be read, and the JSON error carrying  *)
(* that path when the contents cannot be parsed.  In both cases no Vault   *)
(* is produced, and load never changes a file: no retry, no repair.        *)
(***************************************************************************)
C19_LoadErrors ==
  [][Called("load") =>
      LET path == PathOf(Folder, last'.identifier)
          res  == last'.result
      IN  /\ disk' = disk
          /\ res = <<"Ok">> \/ IsErr(res, "IO") \/ IsErr(res, "JSON")
          /\ disk[path] = NoFile => IsErr(res, "IO")
          /\ (disk[path] # NoFile /\ ParseFails(disk[path])) =>
               (IsErr(res, "IO") \/ IsErr(res, "JSON"))
          /\ IsErr(res, "JSON") => ParseFails(disk[path])
          /\ res # <<"Ok">> => (res[3] = path /\ vault' = vault)
          /\ res = <<"Ok">> => (disk[path] # NoFile /\ ~ParseFails(disk[path]))]_vars

\* load refused a file that cannot be parsed, and the file is still there.
C19_Witness ==
  /\ last.op = "load"
  /\ IsErr(last.result, "JSON")
  /\ disk[last.result[3]] = Truncated

(***************************************************************************)
(* PasswordTable::new called on its own, on digests of any length.         *)
(***************************************************************************)
MaxChunks == 3

\* For each selected set the first and the last index of its range among the
\* selected characters.
RECURSIVE EdgesFrom(_, _)
EdgesFrom(sets, acc) ==
  IF sets = <<>> THEN {}
  ELSE {acc, acc + Len(Head(sets)) - 1}
         \cup EdgesFrom(Tail(sets), acc + Len(Head(sets)))

\* Chunks <<set_seed, char_seed>>: a set_seed for each edge, as the largest
\* byte congruent to it.
TableChunkSamples(bits) ==
  LET sets == Get(bits)
      n    == SumLen(sets)
  IN  IF n = 0 THEN {<<0, 0>>}
      ELSE {<<e + n * ((255 - e) \div n), (7 * e + 3) % 256>> :
              e \in EdgesFrom(sets, 0)}

\* Digests of 0..MaxChunks chunks, with and without a trailing odd byte.
TableDigests(bits) ==
  LET even == UNION {{Flatten(c) : c \in [1..n -> TableChunkSamples(bits)]} :
                       n \in 0..MaxChunks}
  IN  even \cup {Append(d, 200) : d \in even}

TableInit ==
  /\ VInit
  /\ UIdle
  /\ key = <<"k">> /\ pepper = PepperOf(17)
  /\ \E bits \in Masks :
       /\ seed = [identifier |-> <<"y">>, length |-> Wide(2), salt |-> 2,
                  characters |-> bits, username |-> <<>>]
       /\ digest \in TableDigests(bits)
  /\ pc = "hashed"
  /\ config = NoConfig
  /\ table = NoTable
  /\ comps = <<>>
  /\ outcome = <<"running">>
  /\ argon2 = {}
  /\ history = <<>>

TableNext == New /\ UNCHANGED <<vvars, uvars>>

TableSpec == TableInit /\ [][TableNext]_vars

\* The number of characters of the first r sets.
RECURSIVE CumSize(_, _)
CumSize(sets, r) == IF r = 0 THEN 0 ELSE CumSize(sets, r - 1) + Len(sets[r])

\* The class (1-based) whose cumulative range contains the selector of chunk i.
ClassOfChunk(sets, dig, i) ==
  LET index == dig[2 * i + 1] % CumSize(sets, Len(sets)) IN
    CHOOSE r \in 1..Len(sets) :
      CumSize(sets, r - 1) <= index /\ index < CumSize(sets, r)

(***************************************************************************)
(* C20.  For every digest (even or odd length, empty included) and every   *)
(* non-empty list of sets, PasswordTable::new does not panic and builds    *)
(* the reference table: one row per set; for each complete 2-byte chunk i  *)
(* exactly one cell (i, char_selector), in the row of the class whose      *)
(* cumulative range contains set_selector mod the number of characters;    *)
(* floor(len(digest) / 2) cells in all; positions strictly increasing      *)
(* within each row.                                                        *)
(***************************************************************************)
C20_ReferenceTable ==
  (pc \in {"created", "finished"} /\ Get(seed.characters) # <<>>) =>
    LET sets == Get(seed.characters)
        n    == Len(digest) \div 2
        rows == table.rows
    IN  /\ pc = "created"
        /\ outcome = <<"running">>
        /\ table.sets = sets
        /\ Len(rows) = Len(sets)
        /\ \A r \in 1..Len(rows) :
             /\ {rows[r][j] : j \in 1..Len(rows[r])} =
                  {<<i, digest[2 * i + 2]>> :
                     i \in {c \in 0..(n - 1) : ClassOfChunk(sets, digest, c) = r}}
             /\ \A j \in 1..(Len(rows[r]) - 1) : rows[r][j][1] < rows[r][j + 1][1]
        /\ TotalLen(rows) = n

\* A table of several sets was built from a digest of odd length, with two
\* cells in one row and a cell in a later row.
C20_Witness ==
  /\ pc = "created"
  /\ Len(digest) % 2 = 1
  /\ Len(table.rows) >= 2
  /\ \E r \in 1..Len(table.rows) : Len(table.rows[r]) >= 2
  /\ Len(table.rows[1]) = 0

(***************************************************************************)
(* PasswordTable::new(..).balance() called on its own: digests of any      *)
(* number of chunks, whatever the target length.                           *)
(***************************************************************************)
BalanceInit ==
  /\ VInit
  /\ UIdle
  /\ key = <<"k">> /\ pepper = PepperOf(17)
  /\ \E bits \in Masks, n \in 1..MaxLen :
       /\ seed = [identifier |-> <<"y">>, length |-> Wide(n), salt |-> 2,
                  characters |-> bits, username |-> <<>>]
       /\ digest \in UNION {Digests(c, bits) : c \in 0..(MaxChunks + 1)}
  /\ pc = "hashed"
  /\ config = NoConfig
  /\ table = NoTable
  /\ comps = <<>>
  /\ outcome = <<"running">>
  /\ argon2 = {}
  /\ history = <<>>

BalanceNext ==
  \/ New /\ UNCHANGED <<vvars, uvars>>
  \/ BalanceBegin /\ UNCHANGED <<vvars, uvars>>
  \/ BalanceMove /\ UNCHANGED <<vvars, uvars>>
  \/ BalanceEnd /\ UNCHANGED <<vvars, uvars>>

BalanceSpec == BalanceInit /\ [][BalanceNext]_vars

(***************************************************************************)
(* C21.  balance never panics, for any table new can produce from any      *)
(* digest for a non-empty list of sets (also a digest with fewer chunks    *)
(* than sets.len() * min_freq, or none): when no row has a cell to give,   *)
(* the deficit is left unmet and balance returns.                          *)
(***************************************************************************)
C21_BalanceNeverPanics ==
  (pc = "finished" /\ Get(seed.characters) # <<>>) =>
    outcome \notin {<<"panic", "balance">>, <<"panic", "debug_assert">>}

\* A step of the loop over compensations that moved a cell.
Moved == pc = "moving" /\ comps # <<>> /\ pc' = "moving" /\ comps' # comps

(***************************************************************************)
(* C22.  Each deficit slot is filled by removing the last cell of a row    *)
(* that is of maximal length at the time of that move and appending it to  *)
(* the deficient row: the donor is never a shorter row, the cell never     *)
(* another than the donor's last, and no other row changes.                *)
(***************************************************************************)
C22_DonorIsLargest ==
  [][Moved =>
      LET rows == table.rows
          i    == Head(comps)
      IN  \E d \in 1..Len(rows) :
            /\ \A r \in 1..Len(rows) : Len(rows[r]) <= Len(rows[d])
            /\ Len(rows[d]) >= 1
            /\ LET cell == rows[d][Len(rows[d])] IN
                 IF d = i THEN table'.rows = rows
                 ELSE /\ table'.rows[d] = SubSeq(rows[d], 1, Len(rows[d]) - 1)
                      /\ table'.rows[i] = Append(rows[i], cell)
                      /\ \A r \in 1..Len(rows) :
                           r \notin {d, i} => table'.rows[r] = rows[r]
                      /\ Len(table'.rows) = Len(rows)]_vars

\* balance is over for three sets or more, cells were moved, and no row is
\* empty.
C22_Witness ==
  /\ pc = "build"
  /\ Len(table.rows) >= 3
  /\ table.rows # NewTable(AsU8(seed.length), Get(seed.characters), digest).rows
  /\ \A r \in 1..Len(table.rows) : Len(table.rows[r]) >= 1
  /\ \E r \in 1..Len(table.rows) : Len(table.rows[r]) >= 2

\* The number of times row r is queued.
SlotsOf(queue, r) == Cardinality({j \in 1..Len(queue) : queue[j] = r})

(***************************************************************************)
(* C23.  balance always terminates.  The deficit slots are computed once,  *)
(* before any move: min_freq - row.len() slots per deficient row, in class *)
(* order.  Every pass of the loop takes one slot off the queue, none is    *)
(* ever added, and with the queue empty balance is over: at most one move  *)
(* per queued slot.  Until it is over balance always has a step to take.   *)
(***************************************************************************)
C23_Terminates ==
  /\ [][(pc = "created" /\ pc' = "moving") =>
          /\ table' = table
          /\ \A r \in 1..Len(table.rows) :
               SlotsOf(comps', r) =
                 IF Len(table.rows[r]) < MinFreq(table)
                 THEN MinFreq(table) - Len(table.rows[r]) ELSE 0
          /\ \A j \in 1..Len(comps') : comps'[j] \in 1..Len(table.rows)
          /\ \A j \in 1..(Len(comps') - 1) : comps'[j] <= comps'[j + 1]]_vars
  /\ [][(pc = "moving" /\ comps # <<>>) =>
          \/ pc' = "moving" /\ comps' = Tail(comps)
          \/ pc' = "finished" /\ outcome'[1] = "panic"]_vars
  /\ [][(pc = "moving" /\ comps = <<>>) =>
          (pc' \in {"build", "finished"} /\ table' = table)]_vars
  /\ [](pc \in {"created", "moving"} => ENABLED BalanceNext)
  /\ [](pc = "moving" => Len(comps) <= 2 * Len(table.rows))

\* balance is over for four sets or more and a small target length, with
\* several rows deficient at once when it began.
C23_Witness ==
  /\ pc = "build"
  /\ Len(table.sets) >= 4
  /\ table.target_len <= Len(table.sets) + 1
  /\ LET rows == NewTable(AsU8(seed.length), Get(seed.characters), digest).rows IN
       Cardinality({r \in 1..Len(rows) : Len(rows[r]) < MinFreq(table)}) >= 2
  /\ MinFreq(table) >= 1

(***************************************************************************)
(* C24.  Only save() (also when Vault::new calls it) writes a vault file,  *)
(* and only the file at the Vault's own path: push, remove, swap, get,     *)
(* load, password and verify_key leave every file as it is, so a load      *)
(* yields what the last save wrote.  password (all of its steps) and       *)
(* verify_key leave the Vault in memory unchanged.                         *)
(***************************************************************************)
C24_OnlySaveWrites ==
  [][/\ \A op \in {"push", "remove", "swap", "get", "load", "password",
                    "verify_key"} : Called(op) => disk' = disk
     /\ Called("save") =>
          \A q \in VaultPaths \ {vault.path} : disk'[q] = disk[q]
     /\ Called("new") =>
          \A q \in VaultPaths \ {PathOf(Folder, last'.identifier)} :
            disk'[q] = disk[q]
     /\ (Called("password") \/ Called("verify_key")) => vault' = vault
     /\ nops' = nops => (disk' = disk /\ vault' = vault)
     /\ (Called("load") /\ last'.result = <<"Ok">>) =>
          vault' = FromJson(disk[PathOf(Folder, last'.identifier)],
                            PathOf(Folder, last'.identifier))]_vars

\* A seed was pushed and the file still holds the vault without it.
C24_Witness ==
  /\ last.op = "push"
  /\ vault.seeds # <<>>
  /\ HoldsVault(vault.path)
  /\ disk[vault.path].seeds = <<>>


(***************************************************************************)
(* tui/input.rs: StringInput.  A key is named by its KeyCode; any other    *)
(* string is KeyCode::Char of that character.                              *)
(***************************************************************************)
\* Longest text typed into a StringInput.
MaxInput == 3

KeyCodes == {"Left", "Right", "Backspace", "Delete", "Up", "Down", "Enter"}

IsChar(code) == code \notin KeyCodes

\* char::is_whitespace
IsWhitespace(c) == c = " "

IsSymbol(c) == ~IsWhitespace(c) /\ ~IsAlphanumeric(c)

\* char::len_utf8
Utf8Len(c) ==
  CASE c \in {"U+00E5", "U+00E4", "U+00F6"} -> 2
    [] c = "U+E000" -> 3
    [] OTHER -> 1

\* String::len(): the number of bytes.
RECURSIVE StrLen(_)
StrLen(str) == IF str = <<>> THEN 0 ELSE Utf8Len(Head(str)) + StrLen(Tail(str))

\* StringInput::set_value(&mut self, value)
SetValue(inp, str) == [inp EXCEPT !.value = str, !.caret = StrLen(str)]

\* An index outside the Vec: the indexing panics.
OutOfBounds == 0 - 1

\* The closure is_jump_point of jump_point, i counted from 0.
IsJumpPoint(value, i) ==
  LET current == value[i + 1]
      left == value[i]
  IN \/ IsSymbol(current) /\ ~IsSymbol(left)
     \/ IsAlphanumeric(current) /\ ~IsAlphanumeric(left)

\* The loop of jump_point.
RECURSIVE Scan(_, _, _, _)
Scan(value, i, dir, stop) ==
  LET j == i + dir IN
    IF j = stop THEN j
    ELSE IF j < 1 \/ j >= Len(value) THEN OutOfBounds
    ELSE IF IsJumpPoint(value, j) THEN j
    ELSE Scan(value, j, dir, stop)

\* StringInput::jump_point(&self, left)
JumpPoint(inp, left) ==
  LET stop == IF left THEN 0 ELSE Len(inp.value) IN
    IF inp.caret = stop \/ inp.hidden THEN stop
    ELSE Scan(inp.value, inp.caret, IF left THEN 0 - 1 ELSE 1, stop)

\* Vec::drain(from..to)
Drain(value, from, to) == SubSeq(value, 1, from) \o SubSeq(value, to + 1, Len(value))

\* Vec::insert(index, c)
InsertAt(value, index, c) ==
  SubSeq(value, 1, index) \o <<c>> \o SubSeq(value, index + 1, Len(value))

Did(inp, changed) == [input |-> inp, changed |-> changed, panic |-> FALSE]
Panics(inp) == [input |-> inp, changed |-> FALSE, panic |-> TRUE]

\* StringInput::key_down(&mut self, key, modifiers): the input afterwards and
\* the value returned, or the panic of an index out of bounds.
KeyDown(inp, code, ctrl) ==
  LET len == Len(inp.value)
      caret == inp.caret
  IN
    CASE code = "Left" /\ ~ctrl ->
           Did([inp EXCEPT !.caret = IF caret > 0 THEN caret - 1 ELSE 0], FALSE)
      [] code = "Left" /\ ctrl ->
           LET end == JumpPoint(inp, TRUE) IN
             IF end = OutOfBounds THEN Panics(inp)
             ELSE Did([inp EXCEPT !.caret = end], FALSE)
      [] code = "Right" /\ ~ctrl ->
           Did([inp EXCEPT !.caret = Min(caret + 1, len)], FALSE)
      [] code = "Right" /\ ctrl ->
           LET end == JumpPoint(inp, FALSE) IN
             IF end = OutOfBounds THEN Panics(inp)
             ELSE Did([inp EXCEPT !.caret = end], FALSE)
      [] code = "Backspace" /\ ~ctrl ->
           IF caret > 0
           THEN IF caret - 1 >= len THEN Panics(inp)
                ELSE Did([inp EXCEPT !.value = RemoveAt(@, caret - 1),
                                     !.caret = caret - 1], TRUE)
           ELSE Did(inp, FALSE)
      [] code = "Backspace" /\ ctrl ->
           IF caret > 0
           THEN LET end == JumpPoint(inp, TRUE) IN
                  IF end = OutOfBounds \/ caret > len THEN Panics(inp)
                  ELSE Did([inp EXCEPT !.value = Drain(@, end, caret),
                                       !.caret = end], TRUE)
           ELSE Did(inp, FALSE)
      [] code = "Delete" /\ ~ctrl ->
           IF caret < len
           THEN Did([inp EXCEPT !.value = RemoveAt(@, caret)], TRUE)
           ELSE Did(inp, FALSE)
      [] code = "Delete" /\ ctrl ->
           IF caret < len
           THEN LET end == JumpPoint(inp, FALSE) IN
                  IF end = OutOfBounds THEN Panics(inp)
                  ELSE Did([inp EXCEPT !.value = Drain(@, caret, end)], TRUE)
           ELSE Did(inp, FALSE)
      [] IsChar(code) ->
           IF caret > len THEN Panics(inp)
           ELSE Did([inp EXCEPT !.value = InsertAt(@, caret, code),
                                !.caret = caret + 1], TRUE)
      [] OTHER -> Did(inp, FALSE)

\* StringInput::format(&self, with_caret = true): the three spans, or the
\* panic of a split_at past the end.
Format(inp) ==
  LET content == (IF inp.hidden THEN [i \in 1..Len(inp.value) |-> "U+2022"]
                  ELSE inp.value) \o <<" ">>
  IN IF inp.caret > Len(content) \/ Len(content) - inp.caret < 1
     THEN <<"panic">>
     ELSE <<"Ok", SubSeq(content, 1, inp.caret),
            SubSeq(content, inp.caret + 1, inp.caret + 1),
            SubSeq(content, inp.caret + 2, Len(content))>>

(***************************************************************************)
(* tui/vault_view.rs: VaultView.                                           *)
(***************************************************************************)
\* sublime_fuzzy::best_match(filter, identifier).is_some(): the characters
\* of the filter are found in the identifier in their order, whatever the
\* case.
RECURSIVE BestMatch(_, _)
BestMatch(query, target) ==
  IF query = <<>> THEN TRUE
  ELSE IF target = <<>> THEN FALSE
  ELSE IF ToAsciiLowercase(Head(query)) = ToAsciiLowercase(Head(target))
       THEN BestMatch(Tail(query), Tail(target))
       ELSE BestMatch(query, Tail(target))

\* The orders a sort by score can leave a set of indices in: the score is
\* the library's, so every order is taken to be possible.
Orderings(S) ==
  {p \in [1..Cardinality(S) -> S] : \A i, j \in DOMAIN p : i # j => p[i] # p[j]}

\* filter_seeds(seeds, filter): the indices that can be displayed.  (The
\* default row is Some(0) unless there is none: see DefaultRow.)
FilterSeeds(seeds, str) ==
  IF str = <<>> THEN {[i \in 1..Len(seeds) |-> i - 1]}
  ELSE Orderings({i \in 0..(Len(seeds) - 1) :
                    BestMatch(str, seeds[i + 1].identifier)})

DefaultRow(filtered) == IF filtered = <<>> THEN NoRow ELSE 0

\* VaultView::update_displayed(&mut self), for the seeds and the filter the
\* view holds after the handler's earlier statements.
UpdateDisplayed(seeds, inp) ==
  \E filtered \in FilterSeeds(seeds, inp.value) :
    /\ displayed' = filtered
    /\ table_state' = DefaultRow(filtered)

Clamp(x, lo, hi) == IF x < lo THEN lo ELSE IF x > hi THEN hi ELSE x

Handled(code, ctrl, alt, result) ==
  event' = [op |-> "update", key |-> code, ctrl |-> ctrl, alt |-> alt,
            result |-> result]

\* move_selected swapping the seeds whether or not Alt is held.
MoveSelected_AlwaysSwaps(delta, move_content) ==
  LET k == IF delta < 0 THEN "Up" ELSE "Down" IN
  IF table_state = NoRow
  THEN /\ Handled(k, FALSE, move_content, <<"Ok">>)
       /\ UNCHANGED <<vault, displayed, table_state, tpc>>
  ELSE LET prev == table_state
           new == Clamp(prev + delta, 0, Len(displayed) - 1)
           a == displayed[prev + 1]
           b == displayed[new + 1]
       IN /\ table_state' = new
          /\ vault' = [vault EXCEPT !.seeds = SwapAt(@, a, b)]
          /\ Handled(k, FALSE, move_content, <<"swap", a, b>>)
          /\ UNCHANGED <<displayed, tpc>>

\* VaultView::move_selected(&mut self, delta, move_content), called for Up
\* (delta -1) and Down (delta 1) with move_content = the Alt modifier.  An
\* Err of Vault::swap leaves update through `?` and ends the view.
MoveSelected(delta, move_content) ==
  LET k == IF delta < 0 THEN "Up" ELSE "Down" IN
  IF table_state = NoRow
  THEN /\ Handled(k, FALSE, move_content, <<"Ok">>)
       /\ UNCHANGED <<vault, displayed, table_state, tpc>>
  ELSE IF displayed = <<>> \/ table_state >= Len(displayed)
  THEN /\ tpc' = "panicked"
       /\ Handled(k, FALSE, move_content, <<"panic">>)
       /\ UNCHANGED <<vault, displayed, table_state>>
  ELSE LET prev == table_state
           new == Clamp(prev + delta, 0, Len(displayed) - 1)
           a == displayed[prev + 1]
           b == displayed[new + 1]
           max == IF a > b THEN a ELSE b
       IN /\ table_state' = new
          /\ IF ~move_content
             THEN /\ Handled(k, FALSE, move_content, <<"Ok">>)
                  /\ UNCHANGED <<vault, tpc>>
             ELSE IF max >= Len(vault.seeds)
             THEN /\ tpc' = "error"
                  /\ Handled(k, FALSE, move_content, <<"Err", "SeedIndex", max>>)
                  /\ UNCHANGED vault
             ELSE /\ vault' = [vault EXCEPT !.seeds = SwapAt(@, a, b)]
                  /\ Handled(k, FALSE, move_content, <<"swap", a, b>>)
                  /\ UNCHANGED tpc
          /\ UNCHANGED displayed

Viewing == tpc = "running"

\* update: KeyCode::Up and KeyCode::Down
ViewMove(delta, alt) ==
  /\ Viewing
  /\ MoveSelected(delta, alt)
  /\ UNCHANGED <<filter, disk, vpc, last, born, nops, pvars>>

\* update: KeyCode::Enter => todo!()
ViewEnter ==
  /\ Viewing
  /\ tpc' = "panicked"
  /\ Handled("Enter", FALSE, FALSE, <<"panic">>)
  /\ UNCHANGED <<filter, displayed, table_state, vvars, pvars>>

\* update: Ctrl+a, whose body is commented out.
ViewAdd ==
  /\ Viewing
  /\ Handled("a", TRUE, FALSE, <<"Ok">>)
  /\ UNCHANGED <<filter, displayed, table_state, tpc, vvars, pvars>>

\* update: Ctrl+h shows dialog::info, which can fail on the terminal.
ViewInfo(io) ==
  /\ Viewing
  /\ tpc' = IF io = "ok" THEN tpc ELSE "error"
  /\ Handled("h", TRUE, FALSE, IF io = "ok" THEN <<"Ok">> ELSE <<"Err", "IO">>)
  /\ UNCHANGED <<filter, displayed, table_state, vvars, pvars>>

\* update: Ctrl+r asks dialog::confirm and removes the selected seed on yes.
ViewRemove(answer) ==
  /\ Viewing
  /\ IF table_state = NoRow
     THEN /\ Handled("r", TRUE, FALSE, <<"Ok">>)
          /\ UNCHANGED <<vault, displayed, table_state, tpc>>
     ELSE LET selected_seed_index == displayed[table_state + 1] IN
       IF selected_seed_index >= Len(vault.seeds)
       THEN /\ tpc' = "panicked"
            /\ Handled("r", TRUE, FALSE, <<"panic">>)
            /\ UNCHANGED <<vault, displayed, table_state>>
       ELSE IF answer = "error"
       THEN /\ tpc' = "error"
            /\ Handled("r", TRUE, FALSE, <<"Err", "IO">>)
            /\ UNCHANGED <<vault, displayed, table_state>>
       ELSE IF answer = "no"
       THEN /\ Handled("r", TRUE, FALSE, <<"Ok">>)
            /\ UNCHANGED <<vault, displayed, table_state, tpc>>
       ELSE LET seeds == RemoveAt(vault.seeds, selected_seed_index) IN
              /\ vault' = [vault EXCEPT !.seeds = seeds]
              /\ UpdateDisplayed(seeds, filter)
              /\ Handled("r", TRUE, FALSE, <<"remove", selected_seed_index>>)
              /\ UNCHANGED tpc
  /\ UNCHANGED <<filter, disk, vpc, last, born, nops, pvars>>

\* update: KeyCode::Char(_) if ctrl || alt => ()
ViewIgnored(c, ctrl, alt) ==
  /\ Viewing
  /\ IsChar(c)
  /\ ctrl \/ alt
  /\ ~(ctrl /\ c \in {"a", "h", "r"})
  /\ Handled(c, ctrl, alt, <<"Ok">>)
  /\ UNCHANGED <<filter, displayed, table_state, tpc, vvars, pvars>>

\* update: every other key goes to the filter, and a changed filter
\* recomputes the displayed rows.
ViewFilterKey(k, ctrl, alt) ==
  /\ Viewing
  /\ k \notin {"Up", "Down", "Enter"}
  /\ IsChar(k) => ~ctrl /\ ~alt /\ Len(filter.value) < MaxInput
  /\ LET r == KeyDown(filter, k, ctrl) IN
       IF r.panic
       THEN /\ tpc' = "panicked"
            /\ Handled(k, ctrl, alt, <<"panic">>)
            /\ UNCHANGED <<filter, displayed, table_state>>
       ELSE /\ filter' = r.input
            /\ Handled(k, ctrl, alt, <<"Ok">>)
            /\ IF r.changed
               THEN UpdateDisplayed(vault.seeds, r.input)
               ELSE UNCHANGED <<displayed, table_state>>
            /\ UNCHANGED tpc
  /\ UNCHANGED <<vvars, pvars>>

\* The seeds of the vaults viewed.
ViewSeedLists == StringsUpTo(SeedSamples, MaxSeeds + 1)

\* The characters typed into the filter.
ViewChars == {"y", "e"}

\* vault_view(term, vault, key): the view of a loaded vault.
ViewInit ==
  /\ PIdle
  /\ \E seeds \in ViewSeedLists :
       /\ vault = [NewVault(<<"t">>, <<"k">>, PepperOf(17)) EXCEPT !.seeds = seeds]
       /\ displayed \in FilterSeeds(seeds, <<>>)
       /\ table_state = DefaultRow(displayed)
  /\ disk = [p \in VaultPaths |-> NoFile]
  /\ vpc = "idle"
  /\ last = [op |-> "none"]
  /\ born = [p \in VaultPaths |-> NoVault]
  /\ nops = 0
  /\ filter = DefaultInput
  /\ tpc = "running"
  /\ event = [op |-> "vault_view"]

ViewNext ==
  \/ \E delta \in {0 - 1, 1}, alt \in BOOLEAN : ViewMove(delta, alt)
  \/ ViewEnter
  \/ ViewAdd
  \/ \E io \in {"ok", "failed"} : ViewInfo(io)
  \/ \E answer \in {"yes", "no", "error"} : ViewRemove(answer)
  \/ \E c \in ViewChars \cup {"a", "h", "r"}, ctrl, alt \in BOOLEAN :
       ViewIgnored(c, ctrl, alt)
  \/ \E k \in ViewChars \cup {"Left", "Right", "Backspace", "Delete"},
        ctrl, alt \in BOOLEAN : ViewFilterKey(k, ctrl, alt)

ViewSpec == ViewInit /\ [][ViewNext]_vars

\* C25: in the vault view the seeds of the vault change only through an
\* explicit reordering or removal: a step of the view that changes
\* vault.seeds() is an Alt+Up or Alt+Down that swapped the two seeds at the
\* displayed rows moved between, or a Ctrl+R answered yes that removed the
\* selected seed; plain Up and Down, filter edits and every other key leave
\* the seeds as they were.
C25_SeedsChangeOnlyExplicitly ==
  [][vault'.seeds # vault.seeds =>
       \/ /\ event'.key \in {"Up", "Down"} /\ event'.alt
          /\ table_state # NoRow
          /\ vault'.seeds = SwapAt(vault.seeds, displayed[table_state + 1],
                                   displayed[table_state' + 1])
       \/ /\ event'.key = "r" /\ event'.ctrl
          /\ table_state # NoRow
          /\ vault'.seeds = RemoveAt(vault.seeds, displayed[table_state + 1])]_vars

\* A filter was typed, and Alt with an arrow then exchanged two different
\* seeds.
C25_Witness ==
  /\ tpc = "running"
  /\ filter.value # <<>>
  /\ event.op = "update" /\ event.key \in {"Up", "Down"} /\ event.alt
  /\ event.result[1] = "swap"
  /\ event.result[2] # event.result[3]
  /\ vault.seeds[event.result[2] + 1] # vault.seeds[event.result[3] + 1]

\* C26: PasswordTable::new and balance complete without panicking for every
\* one of the 32 Characters masks, the empty selection included: neither the
\* remainder by the number of selected characters in new nor the division by
\* the number of selected sets in balance panics.
C26_NoDivisionByZero ==
  outcome \notin {<<"panic", "new">>, <<"panic", "balance">>}

\* C27: the hash input keeps key and seed identifier apart: with the pepper,
\* salt, length and character selection of the derivation under way, every
\* other pair of key and identifier feeds other data to the hash.
C27_HashInputInjective ==
  config # NoConfig =>
    \A k \in Keys, id \in Identifiers :
      (k # key \/ id # seed.identifier) =>
        HashRequest(k, pepper, [seed EXCEPT !.identifier = id]).data # config.data

\* C28: vault files are keyed by identifier: a load(folder, id) that succeeds
\* returns a vault whose identifier() is id, and a Vault::new(folder, id, key)
\* that reports VaultNameConflict found the file of a vault created under
\* that very identifier; two different identifiers never share one file.
C28_KeyedByIdentifier ==
  [][/\ (Called("load") /\ last'.result[1] = "Ok") =>
          vault'.identifier = last'.identifier
     /\ (Called("new") /\ IsErr(last'.result, "VaultNameConflict")) =>
          VaultOnDisk(last'.identifier)]_vars

(***************************************************************************)
(* StringInput on its own: set_value, key_down and format called in any    *)
(* order, format being what the form draws after every key.                *)
(***************************************************************************)
\* A letter, the space, a symbol and a letter outside ASCII.
InputAlphabet == {"a", " ", ".", "U+00E5"}

InputStrings == StringsUpTo(InputAlphabet, MaxInput)

InputInit ==
  /\ PIdle
  /\ VInit
  /\ filter \in {DefaultInput, [DefaultInput EXCEPT !.hidden = TRUE]}
  /\ displayed = <<>>
  /\ table_state = NoRow
  /\ tpc = "running"
  /\ event = [op |-> "default"]

SetValueCall(str) ==
  /\ tpc = "running"
  /\ filter' = SetValue(filter, str)
  /\ event' = [op |-> "set_value", value |-> str]
  /\ UNCHANGED <<displayed, table_state, tpc, vvars, pvars>>

KeyDownCall(code, ctrl) ==
  /\ tpc = "running"
  /\ IsChar(code) => Len(filter.value) < MaxInput
  /\ LET r == KeyDown(filter, code, ctrl) IN
       IF r.panic
       THEN /\ tpc' = "panicked"
            /\ event' = [op |-> "key_down", key |-> code, ctrl |-> ctrl,
                         result |-> <<"panic">>]
            /\ UNCHANGED filter
       ELSE /\ filter' = r.input
            /\ event' = [op |-> "key_down", key |-> code, ctrl |-> ctrl,
                         result |-> <<"Ok", r.changed>>]
            /\ UNCHANGED tpc
  /\ UNCHANGED <<displayed, table_state, vvars, pvars>>

FormatCall ==
  /\ tpc = "running"
  /\ LET r == Format(filter) IN
       /\ event' = [op |-> "format", result |-> r]
       /\ tpc' = IF r[1] = "panic" THEN "panicked" ELSE tpc
  /\ UNCHANGED <<filter, displayed, table_state, vvars, pvars>>

InputNext ==
  \/ \E str \in InputStrings : SetValueCall(str)
  \/ \E code \in InputAlphabet \cup {"Left", "Right", "Backspace", "Delete"},
        ctrl \in BOOLEAN : KeyDownCall(code, ctrl)
  \/ FormatCall

InputSpec == InputInit /\ [][InputNext]_vars

\* C29: StringInput keeps its caret inside the text: after any sequence of
\* set_value and key_down calls the caret is at most the number of
\* characters of value, so that neither jump_point's indexing nor format's
\* split_at goes out of bounds (no call panics); and key_down returns true
\* exactly when it changed value.
C29_CaretInside ==
  /\ [](filter.caret >= 0 /\ filter.caret <= Len(filter.value) /\ tpc # "panicked")
  /\ [][(event'.op = "key_down" /\ event'.result[1] = "Ok") =>
          (event'.result[2] <=> filter'.value # filter.value)]_vars

\* C30: the requested length is neither narrowed nor wrapped on its way
\* through password(): the hash is asked for max(4, 2 * seed.length) bytes
\* and the table's target_len is seed.length, for every length a u32 holds.
C30_LengthKept ==
  /\ config # NoConfig => config.hash_length = Max4(Mul2(seed.length))
  /\ table # NoTable => Wide(table.target_len) = seed.length

====
